---- MODULE Spec2Model ----
(***************************************************************************)
(* The summarize pipeline of YouTube-Summarizer: the POST handler of       *)
(* app/api/summarize/route.ts with its in-memory table of active requests, *)
(* the summary table it reads and writes through prisma, and the progress  *)
(* stream of every request; and extractVideoId of lib/youtube.ts.          *)
(*                                                                         *)
(* Text that the code takes apart (URLs) is a sequence of one-character    *)
(* strings; text it only compares or concatenates is a TLA+ string.        *)
(***************************************************************************)
EXTENDS Integers, Sequences, FiniteSets, TLC

(***************************************************************************)
(* Bounds of the model.                                                    *)
(***************************************************************************)
\* largest number of chunks splitTranscriptIntoChunks returns for a request
MaxChunks == 2

\* the handlers that run side by side; one that has ended takes the next request
Reqs == {"r1", "r2"}

(***************************************************************************)
(* Text helpers.                                                           *)
(***************************************************************************)
RECURSIVE ToStr(_)
ToStr(s) == IF s = <<>> THEN "" ELSE Head(s) \o ToStr(Tail(s))

\* [0-9A-Za-z_-]
IdChars ==
    {"0", "1", "2", "3", "4", "5", "6", "7", "8", "9", "A", "B", "C", "D", "E",
    "F", "G", "H", "I", "J", "K", "L", "M", "N", "O", "P", "Q", "R", "S", "T",
    "U", "V", "W", "X", "Y", "Z", "a", "b", "c", "d", "e", "f", "g", "h", "i",
    "j", "k", "l", "m", "n", "o", "p", "q", "r", "s", "t", "u", "v", "w", "x",
    "y", "z", "_", "-"}

StartsWithAt(s, i, p) ==
    /\ i >= 1
    /\ i + Len(p) - 1 <= Len(s)
    /\ SubSeq(s, i, i + Len(p) - 1) = p

\* String.prototype.includes
Includes(s, p) == \E i \in 1..(Len(s) + 1) : StartsWithAt(s, i, p)

\* the least element of a set of numbers, none when the set is empty
MinOr(S, none) == IF S = {} THEN none ELSE CHOOSE i \in S : \A j \in S : i <= j

\* index of the first occurrence of p in s at or after from; 0 when there is none
IndexFrom(s, p, from) ==
    MinOr({i \in from..(Len(s) + 1) : StartsWithAt(s, i, p)}, 0)

\* index of the first character of s at or after from that is one of stops;
\* Len(s) + 1 when there is none
FirstOf(s, stops, from) ==
    MinOr({i \in from..Len(s) : s[i] \in stops}, Len(s) + 1)

\* String.prototype.trim
RECURSIVE Trim(_)
Trim(s) ==
    IF s = <<>> THEN s
    ELSE IF Head(s) = " " THEN Trim(Tail(s))
    ELSE IF s[Len(s)] = " " THEN Trim(SubSeq(s, 1, Len(s) - 1))
    ELSE s

\* s.split(sep) for a one-character separator
RECURSIVE Split(_, _)
SplitAt(s, sep, k) ==
    IF k = 0 THEN <<s>>
    ELSE <<SubSeq(s, 1, k - 1)>> \o Split(SubSeq(s, k + 1, Len(s)), sep)

Split(s, sep) == SplitAt(s, sep, IndexFrom(s, <<sep>>, 1))

\* parts[parts.length - 1]
Last(parts) == parts[Len(parts)]

(***************************************************************************)
(* new URL(text): scheme "://" host path "?" query "#" fragment.  The      *)
(* result has ok = FALSE when the constructor throws.  The texts of the    *)
(* model carry no port, user info, upper-case host or percent escape.      *)
(***************************************************************************)
Digits == {"0", "1", "2", "3", "4", "5", "6", "7", "8", "9"}

SchemeChars == (IdChars \ {"_"}) \cup {"+", "."}

NotAURL == [ok |-> FALSE, hostname |-> <<>>, pathname |-> <<>>, search |-> <<>>]

\* path and query, the host ending before hEnd and the path before pEnd
ParsePath(s, h0, hEnd, pEnd) ==
    [ok       |-> TRUE,
     hostname |-> SubSeq(s, h0, hEnd - 1),
     pathname |-> IF pEnd = hEnd THEN <<"/">> ELSE SubSeq(s, hEnd, pEnd - 1),
     search   |-> IF pEnd <= Len(s) /\ s[pEnd] = "?"
                  THEN SubSeq(s, pEnd + 1, FirstOf(s, {"#"}, pEnd) - 1)
                  ELSE <<>>]

\* the host starts at h0 and ends before hEnd; an empty host is an error
ParseHost(s, h0, hEnd) ==
    IF hEnd = h0 THEN NotAURL
    ELSE ParsePath(s, h0, hEnd, FirstOf(s, {"?", "#"}, hEnd))

\* c is the index of the first ":"; a scheme must come before it and "//" after
ParseScheme(s, c) ==
    IF /\ c > 1
       /\ \A i \in 1..(c - 1) : s[i] \in SchemeChars
       /\ s[1] \notin Digits \cup {"-", "+", "."}
       /\ StartsWithAt(s, c + 1, <<"/", "/">>)
    THEN ParseHost(s, c + 3, FirstOf(s, {"/", "?", "#"}, c + 3))
    ELSE NotAURL

ParseURL(s) == ParseScheme(s, IndexFrom(s, <<":">>, 1))

\* name and value of one pair of the query
PairName(p, e) == IF e = 0 THEN p ELSE SubSeq(p, 1, e - 1)

PairValue(p, e) == IF e = 0 THEN <<>> ELSE SubSeq(p, e + 1, Len(p))

\* the value of pair k, <<>> (null) for k = 0
ValueOfPair(pairs, k) ==
    IF k = 0 THEN <<>> ELSE PairValue(pairs[k], IndexFrom(pairs[k], <<"=">>, 1))

FirstPairNamed(pairs, name) ==
    MinOr({i \in 1..Len(pairs) :
              /\ pairs[i] # <<>>
              /\ PairName(pairs[i], IndexFrom(pairs[i], <<"=">>, 1)) = name}, 0)

\* url.searchParams.get(name): the value of the first pair of that name
SearchParamsGet(search, name) ==
    ValueOfPair(Split(search, "&"), FirstPairNamed(Split(search, "&"), name))

(***************************************************************************)
(* extractVideoId (lib/youtube.ts).  The result is a character sequence;   *)
(* NoId stands for the thrown "Could not extract video ID from URL".       *)
(***************************************************************************)
NoId == <<"!">>

\* length of a video identifier
IdLen == 11

\* the candidate, when it has the length of an identifier; <<>> otherwise
IfIdLen(videoId) == IF Len(videoId) = IdLen THEN videoId ELSE <<>>

\* the first candidate of a sequence that is not <<>>; none when all are
RECURSIVE FirstFound(_, _)
FirstFound(candidates, none) ==
    IF candidates = <<>> THEN none
    ELSE IF Head(candidates) # <<>> THEN Head(candidates)
    ELSE FirstFound(Tail(candidates), none)

\* the structured branch on a parsed URL: the identifier it returns, or <<>>
\* when it falls through to the patterns
StructuredIdOf(url) ==
    IF ~url.ok THEN <<>>
    ELSE IF ~(Includes(url.hostname, <<"y", "o", "u", "t", "u", "b", "e", ".", "c", "o", "m">>)
              \/ Includes(url.hostname, <<"y", "o", "u", "t", "u", ".", "b", "e">>)) THEN <<>>
    ELSE FirstFound(
           << IF Includes(url.pathname, <<"/", "w", "a", "t", "c", "h">>)
              THEN IfIdLen(SearchParamsGet(url.search, <<"v">>)) ELSE <<>>,
              IF url.hostname = <<"y", "o", "u", "t", "u", ".", "b", "e">>
              THEN IfIdLen(SubSeq(url.pathname, 2, Len(url.pathname))) ELSE <<>>,
              IF Includes(url.pathname, <<"/", "e", "m", "b", "e", "d", "/">>)
              THEN IfIdLen(Last(Split(url.pathname, "/"))) ELSE <<>>,
              IF Includes(url.pathname, <<"/", "s", "h", "o", "r", "t", "s", "/">>)
              THEN IfIdLen(Last(Split(url.pathname, "/"))) ELSE <<>> >>, <<>>)

StructuredId(u) == StructuredIdOf(ParseURL(u))

\* a pattern  prefix([0-9A-Za-z_-]{11})  tried at position i of s; atEnd adds
\* the tail (?:&|$)
PatternAt(s, i, prefix, atEnd) ==
    /\ StartsWithAt(s, i, prefix)
    /\ i + Len(prefix) + IdLen - 1 <= Len(s)
    /\ \A k \in (i + Len(prefix))..(i + Len(prefix) + IdLen - 1) : s[k] \in IdChars
    /\ atEnd => \/ i + Len(prefix) + IdLen - 1 = Len(s)
                \/ s[i + Len(prefix) + IdLen] = "&"

\* the group captured by a match that starts at i; <<>> for i = 0
Captured(s, i, prefix) ==
    IF i = 0 THEN <<>> ELSE SubSeq(s, i + Len(prefix), i + Len(prefix) + IdLen - 1)

\* match[1] of the leftmost match of the pattern in s, or <<>>
PatternMatch(s, prefix, atEnd) ==
    Captured(s, MinOr({i \in 1..Len(s) : PatternAt(s, i, prefix, atEnd)}, 0), prefix)

\* a list of patterns without the one for the bare identifier
NoBareIdPattern(s) == <<>>

\* /^([0-9A-Za-z_-]{11})$/
BareIdMatch(s) ==
    IF Len(s) = IdLen /\ \A k \in 1..Len(s) : s[k] \in IdChars THEN s ELSE <<>>

\* the structured branch, then the patterns in their order, on the trimmed text
ExtractFrom(url) ==
    FirstFound(<< StructuredId(url),
                  PatternMatch(url, <<"v", "=">>, TRUE),
                  PatternMatch(url, <<"e", "m", "b", "e", "d", "/">>, FALSE),
                  PatternMatch(url, <<"y", "o", "u", "t", "u", ".", "b", "e", "/">>, FALSE),
                  PatternMatch(url, <<"s", "h", "o", "r", "t", "s", "/">>, FALSE),
                  BareIdMatch(url) >>, NoId)

extractVideoId(youtube_url) == ExtractFrom(Trim(youtube_url))

(***************************************************************************)
(* The request bodies the model sends to POST /api/summarize.              *)
(***************************************************************************)
\* a watch URL, a text no pattern matches and an upload reference
\* "srt:fileId:youtubeId:filename"
UrlWatch == <<"h", "t", "t", "p", "s", ":", "/", "/", "y", "o", "u", "t", "u", "b", "e", ".", "c", "o", "m", "/", "w", "a", "t", "c", "h", "?", "v", "=", "a", "b", "c", "D", "E", "F", "1", "2", "3", "4", "5", "&", "t", "=", "1">>
UrlNoMatch == <<"b", "a", "d">>
SrtLinked == <<"s", "r", "t", ":", "f", "1", ":", "a", "b", "c", "D", "E", "F", "1", "2", "3", "4", "5", ":", "a", ".", "s", "r", "t">>

Body(url, srtId, mode, aiModel) ==
    [url |-> url, srtId |-> srtId, language |-> "en", mode |-> mode, aiModel |-> aiModel]

\* "srt:fileId:youtubeId:filename" with a youtubeId that is not an identifier
SrtBadId == <<"s", "r", "t", ":", "f", "2", ":", "b", "a", "d", ":", "a", ".", "s", "r", "t">>

Bodies ==
    { Body(UrlWatch, <<>>, "video", "deepseek"),
      Body(<<>>, SrtLinked, "video", "deepseek"),
      Body(UrlWatch, <<>>, "video", "llama"),
      Body(UrlNoMatch, <<>>, "video", "deepseek"),
      Body(<<>>, <<>>, "video", "deepseek") }

\* the keys of AI_MODELS
AI_MODELS == {"gemini", "groq", "gpt4", "deepseek"}

\* the texts a backend returns as final summary; "" is an empty result
Contents == {"summary A"}

(***************************************************************************)
(* State.                                                                  *)
(***************************************************************************)
VARIABLES
    activeRequests,  \* the keys of the Map activeRequests
    summaries,       \* the rows of prisma.summary, in id order
    pc,              \* per request: the await it is suspended at
    data,            \* per request: the parsed body
    loc,             \* per request: the locals of the handler
    stream,          \* per request: the events written to its stream
    writer,          \* per request: "open", "closed" or "errored"
    log,             \* per request: the calls it has made, writes included
    gt,              \* per call of getTranscript: its frame
    files,           \* the files in /tmp: who created the file at each path
    app,             \* the application of a function without side effects
    page             \* the summary page: its state and the bytes still to be read

\* the state of the handler of POST and the state outside of it
post == <<activeRequests, summaries, pc, data, loc, stream, writer, log>>

others == <<gt, files, app, page>>

vars == <<activeRequests, summaries, pc, data, loc, stream, writer, log, gt, files, app,
          page>>

NoBody == Body(<<>>, <<>>, "", "")

\* extractVideoId and srtId.split(':') on the texts of the bodies, worked out
\* once
VideoIdOfUrl == [u \in {d.url : d \in Bodies} \ {<<>>} |-> extractVideoId(u)]

PartsOfSrtId == [x \in {d.srtId : d \in Bodies} \cup {SrtBadId} |-> Split(x, ":")]

\* a row of the table of summaries; NoRow is findFirst's null
Row(id, videoId, language, content, mode, source) ==
    [id |-> id, videoId |-> videoId, language |-> language, content |-> content,
     mode |-> mode, source |-> source]

NoRow == Row(0, "", "", "", "", "")

NoLocals ==
    [videoId |-> "", requestId |-> "", isSrtFile |-> FALSE, inserted |-> FALSE,
     duplicate |-> FALSE, source |-> "", totalChunks |-> 0, i |-> 0,
     summary |-> "", existingSummary |-> NoRow, savedSummary |-> NoRow,
     dbError |-> "", error |-> ""]

(***************************************************************************)
(* Events of the stream (one JSON line each).                              *)
(***************************************************************************)
Event(type, stage, cur, tot, message, summary, source, warning, error) ==
    [type |-> type, stage |-> stage, currentChunk |-> cur, totalChunks |-> tot,
     message |-> message, summary |-> summary, source |-> source,
     warning |-> warning, error |-> error]

Progress(stage, cur, tot, message) ==
    Event("progress", stage, cur, tot, message, "", "", "", "")

Complete(summary, source, warning) ==
    Event("complete", "", 0, 0, "", summary, source, warning, "")

ErrorEvent(error) == Event("error", "", 0, 0, "", "", "", "", error)

DuplicateNotice ==
    Progress("analyzing", 0, 1,
             "Another request for this video is already in progress. Please wait...")

AnalyzingEvent(isSrtFile) ==
    Progress("analyzing", 0, 1,
             IF isSrtFile THEN "Processing SRT file..." ELSE "Fetching video transcript...")

\* a processing event that counts the chunks from 0
ProcessingEventFromZero(i, n) == Progress("processing", i - 1, n, "Processing section")

ProcessingEvent(i, n) == Progress("processing", i, n, "Processing section")

FinalizingEvent(n) == Progress("finalizing", n, n, "Creating final summary...")

SavingEvent(n) == Progress("saving", n, n, "Saving summary to history...")

SaveWarning == "Failed to save to history"

\* error messages
ErrNoInput == "Either a YouTube URL or SRT file ID must be provided"
ErrNoVideoId == "Could not extract video ID from URL"
ErrDuplicate == "Duplicate request"
ErrInvalidModel == "Invalid AI model selected"
ErrNoSummary == "No summary content generated"
ErrTranscript == "Failed to process video"
ErrSrt == "Failed to process SRT file"
ErrBackend == "Backend request failed"
ErrDatabase == "Database request failed"
ErrWrite == "Stream write failed"

(***************************************************************************)
(* The calls of a handler, as its log records them in the order they are   *)
(* made: writeProgress with the event, the calls to prisma with videoId,   *)
(* generateContent with the chunk (0 for the final prompt), and the        *)
(* transcript sources.                                                     *)
(***************************************************************************)
NoEvent == Event("", "", 0, 0, "", "", "", "", "")

Call(op, videoId, chunk) ==
    [op |-> op, videoId |-> videoId, chunk |-> chunk, event |-> NoEvent]

WriteProgress(event) ==
    [op |-> "writeProgress", videoId |-> "", chunk |-> 0, event |-> event]

(***************************************************************************)
(* Helpers of the handler.                                                 *)
(***************************************************************************)
\* `${videoId}-${language}-${mode}-${aiModel}`
RequestId(videoId, language, mode, aiModel) ==
    videoId \o "-" \o language \o "-" \o mode \o "-" \o aiModel

\* prisma.summary.findFirst({where: {videoId, language}}): the first matching
\* row, NoRow when there is none
FindFirst(videoId, language) ==
    LET hits == {k \in 1..Len(summaries) :
                    summaries[k].videoId = videoId /\ summaries[k].language = language}
    IN  IF hits = {} THEN NoRow
        ELSE summaries[CHOOSE k \in hits : \A j \in hits : k <= j]

\* the youtubeId getSrtTranscript returns for an id "srt:...": parts[2] of
\* srtId.split(':') when there are four parts or more, undefined ("") otherwise
SrtYoutubeId(srtId) ==
    LET parts == PartsOfSrtId[srtId]
    IN  IF Len(parts) < 4 THEN "" ELSE ToStr(parts[3])

\* what srtId.split(':') must have for getSrtTranscript not to throw
SrtIdValid(srtId) == Len(PartsOfSrtId[srtId]) >= 3

\* The handler of request r is resumed at the await named by at.  A handler
\* that has ended is forgotten (Forget) before any other handler moves:
\* forgetting it changes nothing another handler reads, and so the ended
\* handlers do not multiply the states.
At(r, at) ==
    /\ \A q \in Reqs : pc[q] # "done"
    /\ pc[r] = at

\* the handler calls a collaborator and awaits the result at pc = at
Await(r, at, call) ==
    /\ pc' = [pc EXCEPT ![r] = at]
    /\ log' = [log EXCEPT ![r] = Append(@, call)]

\* await writeProgress(event)
Emit(r, at, event) == Await(r, at, WriteProgress(event))

\* a catch block that reports the exception as one more progress event
ThrowAsProgress(r, l, message) ==
    /\ loc' = [loc EXCEPT ![r] = [l EXCEPT !.error = message]]
    /\ Emit(r, "catchWrite", Progress("analyzing", 0, 1, message))

\* an exception reaches the catch block of the handler, which writes the error
\* event; l is the request's locals at the throw
Throw(r, l, message) ==
    /\ loc' = [loc EXCEPT ![r] = [l EXCEPT !.error = message]]
    /\ Emit(r, "catchWrite", ErrorEvent(message))

\* the locals of a handler that has ended: what identifies the request and
\* what it caught stay for the properties, the rest is gone
Ended(l) ==
    [NoLocals EXCEPT !.requestId = l.requestId, !.isSrtFile = l.isSrtFile,
                     !.inserted = l.inserted, !.duplicate = l.duplicate,
                     !.summary = l.summary, !.dbError = l.dbError,
                     !.error = l.error]

\* a finally block that closes the writer and leaves the key in the table
FinallyKeepsKey(r) ==
    /\ writer' = [writer EXCEPT ![r] = IF @ = "open" THEN "closed" ELSE @]
    /\ pc' = [pc EXCEPT ![r] = "done"]
    /\ loc' = [loc EXCEPT ![r] = Ended(loc[r])]
    /\ UNCHANGED <<activeRequests, log>>

\* the finally block: the key leaves the table, the writer is closed
Finally(r) ==
    /\ activeRequests' = IF loc[r].requestId # ""
                         THEN activeRequests \ {loc[r].requestId}
                         ELSE activeRequests
    /\ writer' = [writer EXCEPT ![r] = IF @ = "open" THEN "closed" ELSE @]
    /\ pc' = [pc EXCEPT ![r] = "done"]
    /\ loc' = [loc EXCEPT ![r] = Ended(loc[r])]
    /\ UNCHANGED log

\* a stream that takes the event whether or not the consumer is there
WrittenAnyway(r) ==
    stream' = [stream EXCEPT ![r] = Append(@, log[r][Len(log[r])].event)]

\* the pending writeProgress of request r, the last call of its log, resolves:
\* the event is on the stream
Written(r) ==
    /\ writer[r] = "open"
    /\ stream' = [stream EXCEPT ![r] = Append(@, log[r][Len(log[r])].event)]

\* the pending writeProgress of request r rejects: the consumer is gone
WriteFailed(r) ==
    /\ writer[r] # "open"
    /\ UNCHANGED stream

(***************************************************************************)
(* getTranscript, downloadAudio and transcribeWithWhisper: the calls that  *)
(* run side by side, their frames and the files in /tmp.                   *)
(***************************************************************************)
Calls == {"c1", "c2"}

\* a second video
UrlShort == <<"h", "t", "t", "p", "s", ":", "/", "/", "y", "o", "u", "t", "u", ".", "b", "e", "/", "Z", "Y", "X", "w", "v", "u", "9", "8", "7", "6", "5">>

\* the video ids POST passes to getTranscript
TranscriptIds == {VideoIdOfUrl[UrlWatch], extractVideoId(UrlShort)}

\* path.join('/tmp', `${videoId}_temp.mp3`) and path.join('/tmp', `${videoId}.flac`)
TempPath(videoId) == "/tmp/" \o ToStr(videoId) \o "_temp.mp3"

OutputPath(videoId) == "/tmp/" \o ToStr(videoId) \o ".flac"

Paths == {TempPath(v) : v \in TranscriptIds} \cup {OutputPath(v) : v \in TranscriptIds}

\* the frame of a call: where it is suspended, its argument, whether
\* getOpenAIClient() returns a client, whether its write stream has still to
\* open the file, the calls it made, and what it returned or threw
Frame(at, videoId, openai) ==
    [pc |-> at, videoId |-> videoId, openai |-> openai, opening |-> FALSE,
     log |-> <<>>, pending |-> "", source |-> "", error |-> ""]

NoFrame == Frame("idle", <<>>, FALSE)

\* a call of a function: its name, its arguments, and its result once it has
\* returned or thrown
Apply(fn, args) == [fn |-> fn, args |-> args, returned |-> FALSE, result |-> <<>>]

Returned(c, result) == [c EXCEPT !.returned = TRUE, !.result = result]

NoCall == Apply("", <<>>)

\* no call of getTranscript, no file
TranscriptIdle ==
    /\ gt = [c \in Calls |-> NoFrame]
    /\ files = [p \in Paths |-> ""]

\* no request has arrived, the table of summaries is empty
PostIdle ==
    /\ activeRequests = {}
    /\ summaries = <<>>
    /\ pc = [r \in Reqs |-> "idle"]
    /\ data = [r \in Reqs |-> NoBody]
    /\ loc = [r \in Reqs |-> NoLocals]
    /\ stream = [r \in Reqs |-> <<>>]
    /\ writer = [r \in Reqs |-> "open"]
    /\ log = [r \in Reqs |-> <<>>]

\* the summary page: where fetchSummary is, the events the response carries
\* and its bytes still to be read, the events the read loop dispatched, and
\* the state of the component (status, summary, error, loading)
PageOf(at, events, rest) ==
    [pc |-> at, events |-> events, rest |-> rest, handled |-> <<>>, status |-> "",
     summary |-> "", error |-> "", loading |-> TRUE]

NoPage == PageOf("idle", <<>>, <<>>)

PageIdle == page = NoPage

\* nothing outside the handler of POST is running
OthersIdle ==
    /\ TranscriptIdle
    /\ app = NoCall
    /\ PageIdle

(***************************************************************************)
(* Init: the server has started, no request has arrived, the table of      *)
(* summaries is empty.                                                     *)
(***************************************************************************)
Init ==
    /\ PostIdle
    /\ OthersIdle

(***************************************************************************)
(* Every action below is one resumption of the handler: the call it was    *)
(* awaiting returns or throws, and the handler runs to its next await.     *)
(*                                                                         *)
(* POST: from the arrival of the body to the first await after it.         *)
(***************************************************************************)
\* srtId && srtId.startsWith('srt')
IsSrtId(srtId) == srtId # <<>> /\ StartsWithAt(srtId, 1, <<"s", "r", "t">>)

\* the videoId of lines 758-769 as characters; NoId when the handler throws
\* there
VideoIdChars(d) ==
    IF IsSrtId(d.srtId) THEN d.srtId
    ELSE IF d.url # <<>> THEN VideoIdOfUrl[d.url]
    ELSE NoId

\* a handler that does not look the model up in AI_MODELS
AdmitAnyModel(r, d, l, requestId) ==
    IF requestId \in activeRequests
    THEN /\ loc' = [loc EXCEPT ![r] = [l EXCEPT !.requestId = requestId,
                                                !.duplicate = TRUE]]
         /\ Emit(r, "dupNotice", DuplicateNotice)
         /\ UNCHANGED activeRequests
    ELSE /\ activeRequests' = activeRequests \cup {requestId}
         /\ loc' = [loc EXCEPT ![r] = [l EXCEPT !.requestId = requestId,
                                                !.inserted = TRUE]]
         /\ Await(r, "cacheFind", Call("findFirst", l.videoId, 0))

\* the handler from the duplicate check on, the key being requestId
Admit(r, d, l, requestId) ==
    IF requestId \in activeRequests
    THEN /\ loc' = [loc EXCEPT ![r] = [l EXCEPT !.requestId = requestId,
                                                !.duplicate = TRUE]]
         /\ Emit(r, "dupNotice", DuplicateNotice)
         /\ UNCHANGED activeRequests
    ELSE /\ activeRequests' = activeRequests \cup {requestId}
         /\ IF d.aiModel \notin AI_MODELS
            THEN Throw(r, [l EXCEPT !.requestId = requestId, !.inserted = TRUE],
                       ErrInvalidModel)
            ELSE /\ loc' = [loc EXCEPT ![r] = [l EXCEPT !.requestId = requestId,
                                                        !.inserted = TRUE]]
                 /\ Await(r, "cacheFind", Call("findFirst", l.videoId, 0))

\* the handler from the choice of videoId on
Arrive(r, d, isSrtFile, chars) ==
    /\ At(r, "idle")
    /\ UNCHANGED others
    /\ data' = [data EXCEPT ![r] = d]
    /\ UNCHANGED <<summaries, stream, writer>>
    /\ IF ~isSrtFile /\ d.url = <<>>
       THEN /\ Throw(r, NoLocals, ErrNoInput)
            /\ UNCHANGED activeRequests
       ELSE IF chars = NoId
       THEN /\ Throw(r, NoLocals, ErrNoVideoId)
            /\ UNCHANGED activeRequests
       ELSE Admit(r, d, [NoLocals EXCEPT !.isSrtFile = isSrtFile,
                                         !.videoId = ToStr(chars)],
                  RequestId(ToStr(chars), d.language, d.mode, d.aiModel))

Receive(r, d) == Arrive(r, d, IsSrtId(d.srtId), VideoIdChars(d))

(***************************************************************************)
(* The duplicate branch.                                                   *)
(***************************************************************************)
\* the duplicate notice is written; the error event is written next
DupNotice(r) ==
    /\ At(r, "dupNotice")
    /\ UNCHANGED others
    /\ \/ /\ Written(r)
          /\ Emit(r, "dupError", ErrorEvent(ErrDuplicate))
          /\ UNCHANGED loc
       \/ /\ WriteFailed(r)
          /\ Throw(r, loc[r], ErrWrite)
    /\ UNCHANGED <<activeRequests, summaries, data, writer>>

\* the error event is written; writer.close() is called
DupError(r) ==
    /\ At(r, "dupError")
    /\ UNCHANGED others
    /\ \/ /\ Written(r)
          /\ pc' = [pc EXCEPT ![r] = "dupClose"]
          /\ writer' = [writer EXCEPT ![r] = "closed"]
          /\ UNCHANGED <<loc, log>>
       \/ /\ WriteFailed(r)
          /\ Throw(r, loc[r], ErrWrite)
          /\ UNCHANGED writer
    /\ UNCHANGED <<activeRequests, summaries, data>>

\* writer.close() has returned: return, through the finally block
DupClose(r) ==
    /\ At(r, "dupClose")
    /\ UNCHANGED others
    /\ Finally(r)
    /\ UNCHANGED <<summaries, data, stream>>

(***************************************************************************)
(* The cache check.                                                        *)
(***************************************************************************)
\* findFirst returns (or throws): a hit writes the stored content, a miss the
\* analyzing event
CacheFind(r) ==
    LET existingSummary == FindFirst(loc[r].videoId, data[r].language)
    IN  /\ At(r, "cacheFind")
        /\ UNCHANGED others
        /\ \/ Throw(r, loc[r], ErrDatabase)
           \/ /\ existingSummary # NoRow
              /\ Emit(r, "cacheComplete", Complete(existingSummary.content, "cache", ""))
              /\ UNCHANGED loc
           \/ /\ existingSummary = NoRow
              /\ Emit(r, "analyzing", AnalyzingEvent(loc[r].isSrtFile))
              /\ UNCHANGED loc
        /\ UNCHANGED <<activeRequests, summaries, data, stream, writer>>

\* a cache hit without the return: the handler goes on to the transcript
CacheCompleteGoesOn(r) ==
    /\ At(r, "cacheComplete")
    /\ UNCHANGED others
    /\ \/ /\ Written(r)
          /\ Emit(r, "analyzing", AnalyzingEvent(loc[r].isSrtFile))
          /\ UNCHANGED loc
       \/ /\ WriteFailed(r)
          /\ Throw(r, loc[r], ErrWrite)
    /\ UNCHANGED <<activeRequests, summaries, data, writer>>

\* the complete event of a cache hit is written; writer.close() is called
CacheComplete(r) ==
    /\ At(r, "cacheComplete")
    /\ UNCHANGED others
    /\ \/ /\ Written(r)
          /\ pc' = [pc EXCEPT ![r] = "cacheClose"]
          /\ writer' = [writer EXCEPT ![r] = "closed"]
          /\ UNCHANGED <<loc, log>>
       \/ /\ WriteFailed(r)
          /\ Throw(r, loc[r], ErrWrite)
          /\ UNCHANGED writer
    /\ UNCHANGED <<activeRequests, summaries, data>>

\* writer.close() has returned: return, through the finally block
CacheClose(r) ==
    /\ At(r, "cacheClose")
    /\ UNCHANGED others
    /\ Finally(r)
    /\ UNCHANGED <<summaries, data, stream>>

(***************************************************************************)
(* Transcript and chunks.                                                  *)
(***************************************************************************)
\* the analyzing event is written; getSrtTranscript or getTranscript is called
Analyzing(r) ==
    /\ At(r, "analyzing")
    /\ UNCHANGED others
    /\ \/ /\ Written(r)
          /\ Await(r, "transcript",
                   Call(IF loc[r].isSrtFile THEN "getSrtTranscript" ELSE "getTranscript",
                        loc[r].videoId, 0))
          /\ UNCHANGED loc
       \/ /\ WriteFailed(r)
          /\ Throw(r, loc[r], ErrWrite)
    /\ UNCHANGED <<activeRequests, summaries, data, writer>>

\* chunks.length for the transcript of a request: the transcript of the video
\* is the long one, the uploaded file's fits one chunk
ChunkCount(isSrtFile) == IF isSrtFile THEN 1 ELSE MaxChunks

\* the videoId after the transcript: the youtubeId of the upload when it has one
VideoIdAfterTranscript(l, youtubeId) ==
    IF l.isSrtFile /\ youtubeId # "" THEN youtubeId ELSE l.videoId

\* the transcript arrives from source (or the source throws); the transcript
\* is split and the progress event of the first chunk is written
Transcript(r, source) ==
    /\ At(r, "transcript")
    /\ UNCHANGED others
    /\ source = "srt" <=> loc[r].isSrtFile
    /\ \/ Throw(r, loc[r], IF loc[r].isSrtFile THEN ErrSrt ELSE ErrTranscript)
       \/ /\ loc[r].isSrtFile => SrtIdValid(data[r].srtId)
          /\ loc' = [loc EXCEPT
                       ![r].videoId = VideoIdAfterTranscript(loc[r],
                                                             SrtYoutubeId(data[r].srtId)),
                       ![r].source = source,
                       ![r].totalChunks = ChunkCount(loc[r].isSrtFile),
                       ![r].i = 1]
          /\ Emit(r, "chunkWrite", ProcessingEvent(1, ChunkCount(loc[r].isSrtFile)))
    /\ UNCHANGED <<activeRequests, summaries, data, stream, writer>>

\* the progress event of chunk i is written; generateContent is called
ChunkWrite(r) ==
    /\ At(r, "chunkWrite")
    /\ UNCHANGED others
    /\ \/ /\ Written(r)
          /\ Await(r, "chunkGen", Call("generateContent", "", loc[r].i))
          /\ UNCHANGED loc
       \/ /\ WriteFailed(r)
          /\ Throw(r, loc[r], ErrWrite)
    /\ UNCHANGED <<activeRequests, summaries, data, writer>>

\* a chunk loop that calls generateContent for the chunk again when it throws
ChunkGenRetries(r) ==
    /\ At(r, "chunkGen")
    /\ UNCHANGED others
    /\ \/ /\ Await(r, "chunkGen", Call("generateContent", "", loc[r].i))
          /\ UNCHANGED loc
       \/ /\ loc[r].i < loc[r].totalChunks
          /\ loc' = [loc EXCEPT ![r].i = @ + 1]
          /\ Emit(r, "chunkWrite", ProcessingEvent(loc[r].i + 1, loc[r].totalChunks))
       \/ /\ loc[r].i = loc[r].totalChunks
          /\ Emit(r, "finalWrite", FinalizingEvent(loc[r].totalChunks))
          /\ UNCHANGED loc
    /\ UNCHANGED <<activeRequests, summaries, data, stream, writer>>

\* generateContent returns for chunk i (or throws); the next progress event is
\* written: the next chunk's, or finalizing after the last chunk
ChunkGen(r) ==
    /\ At(r, "chunkGen")
    /\ UNCHANGED others
    /\ \/ Throw(r, loc[r], ErrBackend)
       \/ /\ loc[r].i < loc[r].totalChunks
          /\ loc' = [loc EXCEPT ![r].i = @ + 1]
          /\ Emit(r, "chunkWrite", ProcessingEvent(loc[r].i + 1, loc[r].totalChunks))
       \/ /\ loc[r].i = loc[r].totalChunks
          /\ Emit(r, "finalWrite", FinalizingEvent(loc[r].totalChunks))
          /\ UNCHANGED loc
    /\ UNCHANGED <<activeRequests, summaries, data, stream, writer>>

(***************************************************************************)
(* The final summary.                                                      *)
(***************************************************************************)
\* the finalizing event is written; generateContent is called with the final
\* prompt
FinalWrite(r) ==
    /\ At(r, "finalWrite")
    /\ UNCHANGED others
    /\ \/ /\ Written(r)
          /\ Await(r, "finalGen", Call("generateContent", "", 0))
          /\ UNCHANGED loc
       \/ /\ WriteFailed(r)
          /\ Throw(r, loc[r], ErrWrite)
    /\ UNCHANGED <<activeRequests, summaries, data, writer>>

\* a handler that goes on to save whatever generateContent returned
FinalGenAcceptsEmpty(r, summary) ==
    /\ At(r, "finalGen")
    /\ UNCHANGED others
    /\ \/ Throw(r, loc[r], ErrBackend)
       \/ /\ loc' = [loc EXCEPT ![r].summary = summary]
          /\ Emit(r, "savingWrite", SavingEvent(loc[r].totalChunks))
    /\ UNCHANGED <<activeRequests, summaries, data, stream, writer>>

\* generateContent returns summary (or throws); an empty summary throws, any
\* other has the saving event written
FinalGen(r, summary) ==
    /\ At(r, "finalGen")
    /\ UNCHANGED others
    /\ \/ Throw(r, loc[r], ErrBackend)
       \/ /\ summary = ""
          /\ Throw(r, loc[r], ErrNoSummary)
       \/ /\ summary # ""
          /\ loc' = [loc EXCEPT ![r].summary = summary]
          /\ Emit(r, "savingWrite", SavingEvent(loc[r].totalChunks))
    /\ UNCHANGED <<activeRequests, summaries, data, stream, writer>>

(***************************************************************************)
(* Saving.                                                                 *)
(***************************************************************************)
\* x || 'youtube'
OrYoutube(x) == IF x = "" THEN "youtube" ELSE x

\* a save step whose catch throws dbError on to the catch of the handler
SaveFailedRethrows(r, dbError) ==
    Throw(r, [loc[r] EXCEPT !.dbError = dbError], dbError)

\* the catch of the save step, dbError being what was thrown: the summary is
\* still sent, with the warning
SaveFailed(r, dbError) ==
    /\ loc' = [loc EXCEPT ![r].dbError = dbError]
    /\ Emit(r, "warnWrite", Complete(loc[r].summary, OrYoutube(loc[r].source), SaveWarning))

\* the saving event is written; findFirst is called
SavingWrite(r) ==
    /\ At(r, "savingWrite")
    /\ UNCHANGED others
    /\ \/ /\ Written(r)
          /\ Await(r, "saveFind", Call("findFirst", loc[r].videoId, 0))
          /\ UNCHANGED loc
       \/ /\ WriteFailed(r)
          /\ Throw(r, loc[r], ErrWrite)
    /\ UNCHANGED <<activeRequests, summaries, data, writer>>

\* findFirst returns (or throws); update is called for an existing row and
\* create when there is none
SaveFind(r) ==
    LET existingSummary == FindFirst(loc[r].videoId, data[r].language)
    IN  /\ At(r, "saveFind")
        /\ UNCHANGED others
        /\ \/ SaveFailed(r, ErrDatabase)
           \/ /\ existingSummary # NoRow
              /\ loc' = [loc EXCEPT ![r].existingSummary = existingSummary]
              /\ Await(r, "saveUpdate", Call("update", loc[r].videoId, 0))
           \/ /\ existingSummary = NoRow
              /\ Await(r, "saveCreate", Call("create", loc[r].videoId, 0))
              /\ UNCHANGED loc
        /\ UNCHANGED <<activeRequests, summaries, data, stream, writer>>

\* the row is saved: the complete event is written with its content and source
Saved(r, row) ==
    /\ loc' = [loc EXCEPT ![r].savedSummary = row]
    /\ Emit(r, "completeWrite", Complete(row.content, OrYoutube(row.source), ""))

\* update returns the changed row (or throws)
SaveUpdate(r) ==
    LET id  == loc[r].existingSummary.id
        row == [summaries[id] EXCEPT !.content = loc[r].summary,
                                     !.mode = data[r].mode,
                                     !.source = loc[r].source]
    IN  /\ At(r, "saveUpdate")
        /\ UNCHANGED others
        /\ \/ /\ SaveFailed(r, ErrDatabase)
              /\ UNCHANGED summaries
           \/ /\ summaries' = [summaries EXCEPT ![id] = row]
              /\ Saved(r, row)
        /\ UNCHANGED <<activeRequests, data, stream, writer>>

\* a create that stores the row and throws all the same
SaveCreateStoresAndThrows(r) ==
    LET row == Row(Len(summaries) + 1, loc[r].videoId, data[r].language,
                   loc[r].summary, data[r].mode, loc[r].source)
    IN  /\ At(r, "saveCreate")
        /\ UNCHANGED others
        /\ summaries' = Append(summaries, row)
        /\ \/ SaveFailed(r, ErrDatabase)
           \/ Saved(r, row)
        /\ UNCHANGED <<activeRequests, data, stream, writer>>

\* create returns the new row (or throws)
SaveCreate(r) ==
    LET row == Row(Len(summaries) + 1, loc[r].videoId, data[r].language,
                   loc[r].summary, data[r].mode, loc[r].source)
    IN  /\ At(r, "saveCreate")
        /\ UNCHANGED others
        /\ \/ /\ SaveFailed(r, ErrDatabase)
              /\ UNCHANGED summaries
           \/ /\ summaries' = Append(summaries, row)
              /\ Saved(r, row)
        /\ UNCHANGED <<activeRequests, data, stream, writer>>

\* the complete event is written and the handler ends through the finally
\* block; a write that fails is caught by the catch of the save step
CompleteWrite(r) ==
    /\ At(r, "completeWrite")
    /\ UNCHANGED others
    /\ \/ /\ Written(r)
          /\ Finally(r)
       \/ /\ WriteFailed(r)
          /\ SaveFailed(r, ErrWrite)
          /\ UNCHANGED <<activeRequests, writer>>
    /\ UNCHANGED <<summaries, data>>

\* the complete event with the warning is written and the handler ends through
\* the finally block
WarnWrite(r) ==
    /\ At(r, "warnWrite")
    /\ UNCHANGED others
    /\ \/ /\ Written(r)
          /\ Finally(r)
       \/ /\ WriteFailed(r)
          /\ Throw(r, loc[r], ErrWrite)
          /\ UNCHANGED <<activeRequests, writer>>
    /\ UNCHANGED <<summaries, data>>

(***************************************************************************)
(* catch and finally.                                                      *)
(***************************************************************************)
\* the error event is written, or the failure to write it is logged; then the
\* finally block
CatchWrite(r) ==
    /\ At(r, "catchWrite")
    /\ UNCHANGED others
    /\ \/ Written(r)
       \/ WriteFailed(r)
    /\ Finally(r)
    /\ UNCHANGED <<summaries, data>>

(***************************************************************************)
(* The consumer of the stream of a running request goes away: the readable *)
(* side is cancelled and every later write rejects.                        *)
(***************************************************************************)
Disconnect(r) ==
    /\ \A q \in Reqs : pc[q] # "done"
    /\ pc[r] # "idle"
    /\ writer[r] = "open"
    /\ writer' = [writer EXCEPT ![r] = "errored"]
    /\ UNCHANGED <<activeRequests, summaries, pc, data, loc, stream, log>>
    /\ UNCHANGED others

\* the handler of a request that has ended is gone, with its stream; the slot
\* is free for the next request
Forget(r) ==
    /\ pc[r] = "done"
    /\ pc' = [pc EXCEPT ![r] = "idle"]
    /\ data' = [data EXCEPT ![r] = NoBody]
    /\ loc' = [loc EXCEPT ![r] = NoLocals]
    /\ stream' = [stream EXCEPT ![r] = <<>>]
    /\ writer' = [writer EXCEPT ![r] = "open"]
    /\ log' = [log EXCEPT ![r] = <<>>]
    /\ UNCHANGED <<activeRequests, summaries>>
    /\ UNCHANGED others

\* one resumption of the handler of request r
Step(r) ==
    \/ DupNotice(r)
    \/ DupError(r)
    \/ DupClose(r)
    \/ CacheFind(r)
    \/ CacheComplete(r)
    \/ CacheClose(r)
    \/ Analyzing(r)
    \/ \E source \in {"youtube", "whisper", "srt"} : Transcript(r, source)
    \/ ChunkWrite(r)
    \/ ChunkGen(r)
    \/ FinalWrite(r)
    \/ \E summary \in Contents \cup {""} : FinalGen(r, summary)
    \/ SavingWrite(r)
    \/ SaveFind(r)
    \/ SaveUpdate(r)
    \/ SaveCreate(r)
    \/ CompleteWrite(r)
    \/ WarnWrite(r)
    \/ CatchWrite(r)

Next ==
    \E r \in Reqs :
        \/ \E d \in Bodies : Receive(r, d)
        \/ Step(r)
        \/ Disconnect(r)
        \/ Forget(r)

Spec == Init /\ [][Next]_vars


(***************************************************************************)
(* Properties of POST /api/summarize.                                      *)
(*                                                                         *)
(* A request is processing from the moment its key is put in the table     *)
(* (activeRequests.set) until its handler has ended.                       *)
(***************************************************************************)
Processing(r) == loc[r].inserted /\ pc[r] \notin {"idle", "done"}

\* the calls of request r that are writes of an event of the given type
WritesOf(r, type) ==
    {j \in 1..Len(log[r]) : log[r][j].op = "writeProgress" /\ log[r][j].event.type = type}

\* the events of the given type on the stream of request r
EventsOf(r, type) == {j \in 1..Len(stream[r]) : stream[r][j].type = type}

\* the calls of request r to the collaborators named by ops
CallsOf(r, ops) == {j \in 1..Len(log[r]) : log[r][j].op \in ops}

\* the handler of r has ended and its consumer stayed to the end
EndedConnected(r) == pc[r] = "done" /\ writer[r] = "closed"

\* C1: at every moment, no two requests that are processing (key inserted,
\* handler not ended) have the same request key.
C1_OneProcessingPerKey ==
    \A r, q \in Reqs :
        (r # q /\ Processing(r) /\ Processing(q)) => loc[r].requestId # loc[q].requestId

\* C2: a request rejected as a duplicate changes nothing else: no step of its
\* handler changes the table of active requests or the table of summaries
\* (the owner's entry is still there when the duplicate has ended), and it
\* makes no call to the persistence collaborator.
C2_DuplicateFrame ==
    /\ [](\A r \in Reqs :
            loc[r].duplicate => CallsOf(r, {"findFirst", "update", "create"}) = {})
    /\ [][\A r \in Reqs :
            (loc[r].duplicate /\ pc[r] # "done" /\ pc'[r] # pc[r])
                => (activeRequests' = activeRequests /\ summaries' = summaries)]_vars

\* C3: a request that arrives with the key of a request that is processing is
\* rejected as a duplicate; a duplicate makes no call but writes, and the
\* stream of one whose consumer stayed is the duplicate notice followed by the
\* 'Duplicate request' error event, one of each.
C3_DuplicateRejected ==
    /\ [](\A r \in Reqs :
            loc[r].duplicate
                => /\ CallsOf(r, {"findFirst", "update", "create", "getTranscript",
                                  "getSrtTranscript", "generateContent"}) = {}
                   /\ EndedConnected(r)
                        => stream[r] = <<DuplicateNotice, ErrorEvent(ErrDuplicate)>>)
    /\ [][\A r, q \in Reqs :
            (r # q /\ pc[r] = "idle" /\ pc'[r] # "idle" /\ Processing(q)
                 /\ loc'[r].requestId = loc[q].requestId)
                => loc'[r].duplicate]_vars

\* C4: the key of a request that inserted it stays in the table until that
\* request ends: it is there as long as the request is processing, and it is
\* removed by the request's own last step and by no other step.
C4_KeyHeldUntilEnd ==
    /\ [](\A r \in Reqs : Processing(r) => loc[r].requestId \in activeRequests)
    /\ [][\A r \in Reqs :
            (Processing(r) /\ loc[r].requestId \in activeRequests
                 /\ loc[r].requestId \notin activeRequests')
                => pc'[r] = "done"]_vars

\* C5: cleanup runs on every exit path: when a handler has ended, its key is
\* not in the table of active requests and its writer is no longer open
\* (closed, or errored when the consumer had gone and close() rejected), also
\* when the write of the terminal event failed.
C5_CleanupOnEveryExit ==
    \A r \in Reqs :
        pc[r] = "done"
            => /\ writer[r] \in {"closed", "errored"}
               /\ loc[r].requestId # "" => loc[r].requestId \notin activeRequests

\* a handler has ended after the write of its error event failed: the key it
\* inserted is gone and the writer is not open
C5_Witness ==
    \E r \in Reqs :
        /\ pc[r] = "done"
        /\ loc[r].inserted
        /\ loc[r].error # ""
        /\ writer[r] = "errored"
        /\ log[r][Len(log[r])] = WriteProgress(ErrorEvent(loc[r].error))
        /\ EventsOf(r, "error") = {}
        /\ loc[r].requestId \notin activeRequests

\* event e is the progress event of the given stage and chunk numbers
IsProgress(e, stage, cur, tot) ==
    /\ e.type = "progress"
    /\ e.stage = stage
    /\ e.currentChunk = cur
    /\ e.totalChunks = tot

\* request r has ended with a complete event that is not from the cache
SucceededUncached(r) ==
    /\ pc[r] = "done"
    /\ EventsOf(r, "complete") # {}
    /\ \A j \in EventsOf(r, "complete") : stream[r][j].source # "cache"

\* C6: the stream of a request that succeeded without a cache hit, its
\* transcript being of N chunks, is: analyzing, processing 1 of N to N of N,
\* finalizing, saving, complete, each once and in this order; and the write of
\* the processing event of chunk i is the call right before the backend call
\* for chunk i.
C6_EventOrder ==
    \A r \in Reqs :
        SucceededUncached(r)
            => LET n == ChunkCount(loc[r].isSrtFile)
               IN  /\ Len(stream[r]) = n + 4
                   /\ IsProgress(stream[r][1], "analyzing", 0, 1)
                   /\ \A i \in 1..n : IsProgress(stream[r][i + 1], "processing", i, n)
                   /\ IsProgress(stream[r][n + 2], "finalizing", n, n)
                   /\ IsProgress(stream[r][n + 3], "saving", n, n)
                   /\ stream[r][n + 4].type = "complete"
                   /\ \A i \in 1..n :
                        \E j \in 1..(Len(log[r]) - 1) :
                            /\ log[r][j].op = "writeProgress"
                            /\ IsProgress(log[r][j].event, "processing", i, n)
                            /\ log[r][j + 1] = Call("generateContent", "", i)
                   /\ \A i \in 1..n :
                        Cardinality({j \in 1..Len(log[r]) :
                                        log[r][j] = Call("generateContent", "", i)}) = 1

\* a request by URL has succeeded without a cache hit, with more than one chunk
C6_Witness ==
    \E r \in Reqs :
        /\ SucceededUncached(r)
        /\ ~loc[r].isSrtFile
        /\ Len(stream[r]) = MaxChunks + 4
        /\ IsProgress(stream[r][MaxChunks + 1], "processing", MaxChunks, MaxChunks)
        /\ MaxChunks > 1

\* C7: a request that inserted its key and failed (invalid model, cache
\* lookup, transcript, chunk or final generation, empty result, or a write)
\* writes exactly one error event, and that write is the last call it makes;
\* the stream has no event after an error event, and when the consumer stayed
\* the error event is on the stream, once and last.
C7_OneFinalErrorEvent ==
    \A r \in Reqs :
        (pc[r] = "done" /\ loc[r].inserted /\ loc[r].error # "")
            => /\ WritesOf(r, "error") = {Len(log[r])}
               /\ log[r][Len(log[r])] = WriteProgress(ErrorEvent(loc[r].error))
               /\ \A j \in EventsOf(r, "error") : j = Len(stream[r])
               /\ EndedConnected(r)
                    => /\ EventsOf(r, "error") = {Len(stream[r])}
                       /\ stream[r][Len(stream[r])] = ErrorEvent(loc[r].error)
                       /\ EventsOf(r, "complete") = {}

\* a request has failed at the generation after progress events, its consumer
\* still there: the error event is the last of the stream
C7_Witness ==
    \E r \in Reqs :
        /\ EndedConnected(r)
        /\ loc[r].inserted
        /\ loc[r].error \in {ErrBackend, ErrNoSummary}
        /\ Len(stream[r]) > 2
        /\ stream[r][Len(stream[r])] = ErrorEvent(loc[r].error)

\* request r found a row at the cache check: its second call is the write of
\* the complete event with source 'cache'
CacheHit(r) ==
    /\ Len(log[r]) >= 2
    /\ log[r][2].op = "writeProgress"
    /\ log[r][2].event.source = "cache"

\* C8: a request that finds a row for (videoId, language) at the cache check
\* writes the complete event with the stored content and source 'cache' and
\* nothing else reaches its stream; it calls no transcript source, no backend
\* and no create or update; when the consumer stayed that event is its whole
\* stream.
C8_CacheHit ==
    /\ [](\A r \in Reqs :
            CacheHit(r)
                => /\ log[r][1].op = "findFirst"
                   /\ \E k \in 1..Len(summaries) :
                        /\ summaries[k].videoId = log[r][1].videoId
                        /\ summaries[k].language = data[r].language
                        /\ log[r][2] = WriteProgress(Complete(summaries[k].content, "cache", ""))
                   /\ CallsOf(r, {"getTranscript", "getSrtTranscript", "generateContent",
                                  "update", "create"}) = {}
                   /\ CallsOf(r, {"findFirst"}) = {1}
                   /\ WritesOf(r, "progress") = {}
                   /\ WritesOf(r, "complete") = {2}
                   /\ Len(stream[r]) <= 1
                   /\ \A j \in 1..Len(stream[r]) : stream[r][j] = log[r][2].event
                   /\ EndedConnected(r) => stream[r] = <<log[r][2].event>>)
    /\ [][\A r \in Reqs :
            (pc[r] = "cacheFind" /\ pc'[r] # "cacheFind"
                 /\ FindFirst(loc[r].videoId, data[r].language) # NoRow)
                => \/ pc'[r] = "cacheComplete"
                   \/ loc'[r].error = ErrDatabase]_vars

\* a request was served from the cache and has ended, its consumer still there
C8_Witness ==
    \E r \in Reqs :
        /\ EndedConnected(r)
        /\ CacheHit(r)
        /\ Len(stream[r]) = 1
        /\ stream[r][1].type = "complete"
        /\ stream[r][1].source = "cache"
        /\ stream[r][1].summary \in Contents

\* C9: a request for an upload whose reference carries the video id V looks
\* up and stores under V: every findFirst, update and create it calls has
\* videoId = V.
C9_UploadKeyedByVideo ==
    \A r \in Reqs :
        (IsSrtId(data[r].srtId) /\ SrtIdValid(data[r].srtId)
             /\ SrtYoutubeId(data[r].srtId) # "")
            => \A j \in CallsOf(r, {"findFirst", "update", "create"}) :
                   log[r][j].videoId = SrtYoutubeId(data[r].srtId)

\* C10: a request whose save step failed at the persistence collaborator
\* (findFirst, update or create threw) writes the complete event with the
\* generated summary and the warning, and no error event reaches its stream;
\* when the consumer stayed, that complete event is the last of the stream.
C10_SaveFailureIsWarning ==
    \A r \in Reqs :
        (pc[r] = "done" /\ loc[r].dbError = ErrDatabase)
            => /\ \E j \in WritesOf(r, "complete") :
                    /\ log[r][j].event.summary = loc[r].summary
                    /\ log[r][j].event.summary \in Contents
                    /\ log[r][j].event.warning = SaveWarning
                    /\ log[r][j - 1].op \in {"findFirst", "update", "create"}
               /\ EventsOf(r, "error") = {}
               /\ EndedConnected(r)
                    => /\ loc[r].error = ""
                       /\ WritesOf(r, "error") = {}
                       /\ EventsOf(r, "complete") = {Len(stream[r])}
                       /\ stream[r][Len(stream[r])].summary = loc[r].summary
                       /\ stream[r][Len(stream[r])].warning = SaveWarning

\* the save step of a request failed and the request has ended with the
\* complete event that carries the summary and the warning
C10_Witness ==
    \E r \in Reqs :
        /\ EndedConnected(r)
        /\ loc[r].dbError = ErrDatabase
        /\ stream[r][Len(stream[r])].type = "complete"
        /\ stream[r][Len(stream[r])].summary \in Contents
        /\ stream[r][Len(stream[r])].warning = SaveWarning


(***************************************************************************)
(* The requests for one video by URL, under the assumption that every      *)
(* await of a handler resolves in the end: the collaborators return or     *)
(* throw, and an ended handler is forgotten.  Strong fairness, since a     *)
(* handler is held back while another one that has ended is forgotten.     *)
(***************************************************************************)
CancelBodies ==
    { Body(UrlWatch, <<>>, "video", "deepseek") }

NextCancel ==
    \E r \in Reqs :
        \/ \E d \in CancelBodies : Receive(r, d)
        \/ Step(r)
        \/ Disconnect(r)
        \/ Forget(r)

SpecCancel ==
    /\ Init
    /\ [][NextCancel]_vars
    /\ \A r \in Reqs : SF_vars(Step(r)) /\ WF_vars(Forget(r))

\* the consumer of request r has gone while the handler is running
Cancelled(r) == writer[r] = "errored" /\ pc[r] \notin {"idle", "done"}

\* once the consumer of a running request has gone, no event is
\* added to its stream and its handler starts no transcript source and no
\* backend call: the write at the next chunk boundary rejects and ends it;
\* and a handler that has ended with its consumer gone has its key out of the
\* table and its writer not open.
CancelStops ==
    /\ [](\A r \in Reqs :
            (pc[r] = "done" /\ writer[r] = "errored")
                => (loc[r].requestId # "" => loc[r].requestId \notin activeRequests))
    /\ [][\A r \in Reqs :
            Cancelled(r)
                => /\ stream'[r] = stream[r]
                   /\ Len(log'[r]) > Len(log[r])
                        => log'[r][Len(log'[r])].op \notin
                               {"getTranscript", "getSrtTranscript", "generateContent"}]_vars

\* a running handler whose consumer has gone ends, through the finally block
CancelEnds ==
    \A r \in Reqs : Cancelled(r) ~> (pc[r] = "done" /\ writer[r] = "errored")

ErrCaptions == "Transcript is disabled on this video"
ErrInfo == "Video unavailable"
ErrNoWhisper == "Transcript not available and OpenAI API key not configured for Whisper fallback."
ErrDownload == "Download failed"
ErrEmptyAudio == "Downloaded audio file is empty"
ErrFfmpeg == "Command failed: ffmpeg"
ErrEmptyFlac == "Converted FLAC file is empty"
ErrRead == "ENOENT: no such file or directory"
ErrWhisper == "Whisper transcription failed"

\* videoId.length === 11 ? videoId : extractVideoId(videoId)
CleanVideoId(videoId) ==
    IF Len(videoId) = IdLen THEN videoId ELSE extractVideoId(videoId)

\* the call is suspended at the await named by at, having called op
Called(c, f, at, op) ==
    gt' = [gt EXCEPT ![c] = [f EXCEPT !.pc = at, !.log = Append(@, op)]]

\* the inner catch of getTranscript: throw new Error(`Failed to process video: ...`)
FailedToProcess(c, f, message) ==
    gt' = [gt EXCEPT ![c] = [f EXCEPT !.pc = "thrown",
                                      !.error = "Failed to process video: " \o message]]

\* a catch of the captions that reports their failure to the caller
FallbackRethrows(c, f) == FailedToProcess(c, f, ErrCaptions)

\* the catch of the captions: the fallback starts with ytdl.getInfo
Fallback(c, f) ==
    IF CleanVideoId(f.videoId) = NoId
    THEN FailedToProcess(c, f, ErrNoVideoId)
    ELSE Called(c, f, "getInfo", "getInfo")

\* getTranscript is called and awaits YoutubeTranscript.fetchTranscript
GetTranscript(c, videoId, openai) ==
    /\ gt[c].pc = "idle"
    /\ IF CleanVideoId(videoId) = NoId
       THEN Fallback(c, Frame("idle", videoId, openai))
       ELSE Called(c, Frame("idle", videoId, openai), "fetchTranscript", "fetchTranscript")
    /\ UNCHANGED files
    /\ UNCHANGED <<post, app, page>>

\* fetchTranscript returns the captions, or throws and the fallback starts
FetchTranscript(c) ==
    /\ gt[c].pc = "fetchTranscript"
    /\ \/ gt' = [gt EXCEPT ![c].pc = "returned", ![c].source = "youtube"]
       \/ Fallback(c, gt[c])
    /\ UNCHANGED files
    /\ UNCHANGED <<post, app, page>>

\* a fallback that downloads the audio without looking for the OpenAI client
GetInfoThenDownload(c) ==
    /\ gt[c].pc = "getInfo"
    /\ \/ FailedToProcess(c, gt[c], ErrInfo)
       \/ Called(c, gt[c], "dlInfo", "downloadAudio")
    /\ UNCHANGED files
    /\ UNCHANGED <<post, app, page>>

\* ytdl.getInfo returns (or throws); without an OpenAI client the call throws,
\* with one downloadAudio starts and asks for the video info
GetInfo(c) ==
    /\ gt[c].pc = "getInfo"
    /\ \/ FailedToProcess(c, gt[c], ErrInfo)
       \/ /\ ~gt[c].openai
          /\ FailedToProcess(c, gt[c], ErrNoWhisper)
       \/ /\ gt[c].openai
          /\ Called(c, gt[c], "dlInfo", "downloadAudio")
    /\ UNCHANGED files
    /\ UNCHANGED <<post, app, page>>

\* fs.unlinkSync(path) when fs.existsSync(path)
Unlinked(fs, path) == [fs EXCEPT ![path] = ""]

\* the catch of downloadAudio: both files are removed when they exist, and
\* the error goes on through the catch blocks of getTranscript
DownloadCatch(c, message) ==
    /\ files' = Unlinked(Unlinked(files, TempPath(gt[c].videoId)), OutputPath(gt[c].videoId))
    /\ FailedToProcess(c, gt[c], message)

\* the info of downloadAudio arrives (or not): with a format the download
\* starts and fs.createWriteStream(tempPath) is called, which opens the file
\* later
DlInfo(c) ==
    /\ gt[c].pc = "dlInfo"
    /\ \/ DownloadCatch(c, ErrInfo)
       \/ /\ gt' = [gt EXCEPT ![c].pc = "downloading", ![c].opening = TRUE]
          /\ UNCHANGED files
    /\ UNCHANGED <<post, app, page>>

\* the write stream opens tempPath (flags 'w'): the file is created, or
\* truncated when it is there
OpenFile(c) ==
    /\ gt[c].opening
    /\ gt' = [gt EXCEPT ![c].opening = FALSE]
    /\ files' = [files EXCEPT ![TempPath(gt[c].videoId)] = c]
    /\ UNCHANGED <<post, app, page>>

\* the download ends: 'error' rejects, and after 'finish' the file is checked
\* and ffmpeg is started; a file that is gone at 'finish' has statSync throw
\* in the listener and the promise never settles
Download(c) ==
    /\ gt[c].pc = "downloading"
    /\ \/ DownloadCatch(c, ErrDownload)
       \/ /\ ~gt[c].opening
          /\ \/ /\ files[TempPath(gt[c].videoId)] = ""
                /\ gt' = [gt EXCEPT ![c].pc = "hung"]
                /\ UNCHANGED files
             \/ /\ files[TempPath(gt[c].videoId)] # ""
                /\ DownloadCatch(c, ErrEmptyAudio)
             \/ /\ files[TempPath(gt[c].videoId)] # ""
                /\ gt' = [gt EXCEPT ![c].pc = "ffmpeg"]
                /\ UNCHANGED files
    /\ UNCHANGED <<post, app, page>>

\* ffmpeg ends: a failure, an empty output or a temp file that cannot be
\* removed goes to the catch; otherwise the output is there, the temp file is
\* removed and transcribeWithWhisper reads the output
Ffmpeg(c) ==
    /\ gt[c].pc = "ffmpeg"
    /\ \/ DownloadCatch(c, ErrFfmpeg)
       \/ /\ files[TempPath(gt[c].videoId)] # ""
          /\ files[OutputPath(gt[c].videoId)] = ""
          /\ \/ DownloadCatch(c, ErrEmptyFlac)
             \/ /\ files' = [Unlinked(files, TempPath(gt[c].videoId))
                                EXCEPT ![OutputPath(gt[c].videoId)] = c]
                /\ Called(c, gt[c], "readFile", "transcribeWithWhisper")
    /\ UNCHANGED <<post, app, page>>

\* fs.promises.readFile returns the audio and Whisper is called, or it rejects
\* and the finally block unlinks the file
ReadFile(c) ==
    /\ gt[c].pc = "readFile"
    /\ \/ gt' = [gt EXCEPT ![c].pc = "unlink", ![c].pending = ErrRead]
       \/ /\ files[OutputPath(gt[c].videoId)] # ""
          /\ gt' = [gt EXCEPT ![c].pc = "whisper"]
    /\ UNCHANGED files
    /\ UNCHANGED <<post, app, page>>

\* openai.audio.transcriptions.create returns the text or throws; the finally
\* block unlinks the file
Whisper(c) ==
    /\ gt[c].pc = "whisper"
    /\ \/ gt' = [gt EXCEPT ![c].pc = "unlink"]
       \/ gt' = [gt EXCEPT ![c].pc = "unlink", ![c].pending = ErrWhisper]
    /\ UNCHANGED files
    /\ UNCHANGED <<post, app, page>>

\* fs.promises.unlink(audioPath) has ended: the text is returned with source
\* 'whisper', or the pending error is thrown on
Unlink(c) ==
    /\ gt[c].pc = "unlink"
    /\ files' = Unlinked(files, OutputPath(gt[c].videoId))
    /\ IF gt[c].pending = ""
       THEN gt' = [gt EXCEPT ![c].pc = "returned", ![c].source = "whisper"]
       ELSE FailedToProcess(c, gt[c], gt[c].pending)
    /\ UNCHANGED <<post, app, page>>

InitTranscript ==
    /\ PostIdle
    /\ OthersIdle

NextTranscript ==
    \E c \in Calls :
        \/ \E videoId \in TranscriptIds, openai \in BOOLEAN : GetTranscript(c, videoId, openai)
        \/ FetchTranscript(c)
        \/ GetInfo(c)
        \/ DlInfo(c)
        \/ OpenFile(c)
        \/ Download(c)
        \/ Ffmpeg(c)
        \/ ReadFile(c)
        \/ Whisper(c)
        \/ Unlink(c)

SpecTranscript == InitTranscript /\ [][NextTranscript]_vars


\* the call has ended
EndedCall(c) == gt[c].pc \in {"returned", "thrown"}

\* what a call logs when the captions failed and Whisper was reached
SpeechCalls == <<"fetchTranscript", "getInfo", "downloadAudio", "transcribeWithWhisper">>

\* C12: the captions are tried first and the speech path after them: when
\* fetchTranscript ends, the call returns with source 'youtube' or goes on to
\* ytdl.getInfo, never to the caller with the captions' error; the speech path
\* is not entered by a call whose captions succeeded; the source is 'youtube'
\* exactly when the captions gave the text and 'whisper' exactly when Whisper
\* did.
C12_CaptionsThenSpeech ==
    /\ [](\A c \in Calls :
            /\ gt[c].log # <<>> => gt[c].log[1] = "fetchTranscript"
            /\ \E n \in 0..Len(SpeechCalls) : gt[c].log = SubSeq(SpeechCalls, 1, n)
            /\ gt[c].source = "youtube"
                 <=> (gt[c].pc = "returned" /\ gt[c].log = <<"fetchTranscript">>)
            /\ gt[c].source = "whisper"
                 <=> (gt[c].pc = "returned" /\ gt[c].log = SpeechCalls)
            /\ gt[c].source \in {"", "youtube", "whisper"}
            /\ gt[c].pc = "thrown"
                 => /\ Len(gt[c].log) >= 2
                    /\ gt[c].error # "Failed to process video: " \o ErrCaptions
                    /\ gt[c].error # ErrCaptions)
    /\ [][\A c \in Calls :
            (gt[c].pc = "fetchTranscript" /\ gt'[c].pc # "fetchTranscript")
                => \/ gt'[c].pc = "returned" /\ gt'[c].source = "youtube"
                   \/ gt'[c].pc = "getInfo" /\ gt'[c].log = <<"fetchTranscript", "getInfo">>]_vars

\* one call has returned the captions, another the text of Whisper after its
\* captions failed
C12_Witness ==
    \E c, d \in Calls :
        /\ gt[c].pc = "returned" /\ gt[c].source = "youtube"
        /\ gt[c].log = <<"fetchTranscript">>
        /\ gt[d].pc = "returned" /\ gt[d].source = "whisper"
        /\ gt[d].log = SpeechCalls

\* C13: when a call that entered downloadAudio has ended, by return or by
\* throw, no file it created is left: neither its temp file nor its converted
\* file.
C13_NoAudioFileLeft ==
    \A c \in Calls :
        (EndedCall(c) /\ Len(gt[c].log) >= 3)
            => /\ files[TempPath(gt[c].videoId)] # c
               /\ files[OutputPath(gt[c].videoId)] # c


(***************************************************************************)
(* splitTranscriptIntoChunks(transcript, chunkSize, overlap).  Texts are   *)
(* sequences of characters, and so are the chunks.                         *)
(***************************************************************************)
\* words.join(sep)
RECURSIVE Join(_, _)
Join(words, sep) ==
    IF words = <<>> THEN <<>>
    ELSE IF Len(words) = 1 THEN words[1]
    ELSE words[1] \o <<sep>> \o Join(Tail(words), sep)

\* a.slice(-n); -0 is 0, and a.slice(0) is the whole of a
SliceLast(a, n) ==
    IF n = 0 \/ n >= Len(a) THEN a ELSE SubSeq(a, Len(a) - n + 1, Len(a))

\* what the loop keeps between two words
Accumulator(chunks, currentChunk, currentLength) ==
    [chunks |-> chunks, currentChunk |-> currentChunk, currentLength |-> currentLength]

\* currentChunk.push(word); currentLength += word.length + 1
PushWord(acc, word) ==
    Accumulator(acc.chunks, Append(acc.currentChunk, word),
                acc.currentLength + Len(word) + 1)

\* the chunk is closed and the next one starts with its last words
CloseChunk(acc, overlapWords) ==
    Accumulator(Append(acc.chunks, Join(acc.currentChunk, " ")), overlapWords,
                Len(Join(overlapWords, " ")))

\* one turn of the loop over the words
SplitWord(acc, word, chunkSize, overlap) ==
    IF acc.currentLength + Len(word) > chunkSize /\ Len(acc.currentChunk) > 0
    THEN PushWord(CloseChunk(acc, SliceLast(acc.currentChunk, overlap \div 10)), word)
    ELSE PushWord(acc, word)

RECURSIVE SplitWords(_, _, _, _)
SplitWords(acc, words, chunkSize, overlap) ==
    IF words = <<>> THEN acc
    ELSE SplitWords(SplitWord(acc, Head(words), chunkSize, overlap), Tail(words),
                    chunkSize, overlap)

\* a return that leaves out what is left in currentChunk
LastChunkDropped(acc) == acc.chunks

\* the chunks after the loop: what is left in currentChunk is the last one
LastChunk(acc) ==
    IF Len(acc.currentChunk) > 0
    THEN Append(acc.chunks, Join(acc.currentChunk, " "))
    ELSE acc.chunks

splitTranscriptIntoChunks(transcript, chunkSize, overlap) ==
    LastChunk(SplitWords(Accumulator(<<>>, <<>>, 0), Split(transcript, " "),
                         chunkSize, overlap))

\* the texts, budgets and overlaps the function is called with
MaxText == 7
MaxChunkSize == 5
TextChars == {"a", " "}
Texts == UNION {[1..n -> TextChars] : n \in 0..MaxText}
ChunkSizes == 1..MaxChunkSize
Overlaps == {0, 10, 20}

InitSplit ==
    /\ PostIdle
    /\ TranscriptIdle
    /\ PageIdle
    /\ app \in {Apply("splitTranscriptIntoChunks",
                       [transcript |-> t, chunkSize |-> n, overlap |-> o]) :
                     t \in Texts, n \in ChunkSizes, o \in Overlaps}

SplitTranscript ==
    /\ app.fn = "splitTranscriptIntoChunks"
    /\ ~app.returned
    /\ app' = Returned(app, splitTranscriptIntoChunks(app.args.transcript,
                                                     app.args.chunkSize,
                                                     app.args.overlap))
    /\ UNCHANGED <<post, gt, files, page>>

NextSplit == SplitTranscript

SpecSplit == InitSplit /\ [][NextSplit]_vars


\* splitTranscriptIntoChunks has returned
SplitReturned == app.fn = "splitTranscriptIntoChunks" /\ app.returned

\* C14: every chunk returned by splitTranscriptIntoChunks has at most
\* chunkSize characters, but for a chunk of one word that is longer than
\* chunkSize.
C14_ChunkWithinBudget ==
    SplitReturned
        => \A k \in 1..Len(app.result) :
               \/ Len(app.result[k]) <= app.args.chunkSize
               \/ /\ Len(Split(app.result[k], " ")) = 1
                  /\ Len(app.result[k]) > app.args.chunkSize

\* the number of leading words of a chunk that come from the chunk before it,
\* which has prevLen words: floor(overlap / 10) of them, and all of them when
\* that is 0 or more than there are
CarriedOver(prevLen, overlap) ==
    IF overlap \div 10 = 0 \/ overlap \div 10 >= prevLen THEN prevLen ELSE overlap \div 10

\* the words of chunk k without the words carried over from chunk k - 1
OwnWords(chunks, k, overlap) ==
    IF k = 1 THEN Split(chunks[1], " ")
    ELSE SubSeq(Split(chunks[k], " "),
                CarriedOver(Len(Split(chunks[k - 1], " ")), overlap) + 1,
                Len(Split(chunks[k], " ")))

\* the own words of chunks 1..k, in order
RECURSIVE Rebuilt(_, _, _)
Rebuilt(chunks, k, overlap) ==
    IF k = 0 THEN <<>>
    ELSE Rebuilt(chunks, k - 1, overlap) \o OwnWords(chunks, k, overlap)

\* chunk k begins with the last words of chunk k - 1
BeginsWithCarried(prev, next, n) ==
    /\ Len(next) > n
    /\ SubSeq(next, 1, n) = SubSeq(prev, Len(prev) - n + 1, Len(prev))

\* C15: the chunks of a text, each without the leading words carried over
\* from the chunk before it, give the words of the text, each once and in
\* order; every chunk after the first begins with the carried words and has a
\* word of its own; and there is a last chunk, which ends with the last word.
C15_ChunksRebuildText ==
    SplitReturned
        => /\ Len(app.result) >= 1
           /\ Rebuilt(app.result, Len(app.result), app.args.overlap)
                  = Split(app.args.transcript, " ")
           /\ \A k \in 2..Len(app.result) :
                  BeginsWithCarried(Split(app.result[k - 1], " "), Split(app.result[k], " "),
                                    CarriedOver(Len(Split(app.result[k - 1], " ")),
                                                app.args.overlap))
           /\ Last(Split(app.result[Len(app.result)], " "))
                  = Last(Split(app.args.transcript, " "))

\* a text of words of different lengths was split into three chunks or more
\* with one word of overlap
C15_Witness ==
    /\ SplitReturned
    /\ Len(app.result) >= 3
    /\ app.args.overlap = 10
    /\ \E i, j \in 1..Len(Split(app.args.transcript, " ")) :
           Len(Split(app.args.transcript, " ")[i]) > Len(Split(app.args.transcript, " ")[j])
              /\ Len(Split(app.args.transcript, " ")[j]) > 0


(***************************************************************************)
(* extractVideoId(youtube_url) on the URL shapes of the repository's test  *)
(* (youtube-url-extraction), for identifiers that are well formed and for  *)
(* texts that are not identifiers.                                         *)
(***************************************************************************)
\* identifiers: 11 characters of [0-9A-Za-z_-]
GoodIds == {<<"o", "d", "X", "X", "U", "T", "1", "w", "k", "z", "w">>, <<"a", "-", "c", "_", "E", "F", "1", "2", "3", "4", "5">>}

\* not identifiers: a character outside the alphabet, 10 characters
BadIds == {<<"a", "b", "c", "D", "E", "F", "1", "2", "3", "4", "!">>, <<"a", "b", "c", "D", "E", "F", "1", "2", "3", "4">>}

HttpsWww == <<"h", "t", "t", "p", "s", ":", "/", "/", "w", "w", "w", ".", "y", "o", "u", "t", "u", "b", "e", ".", "c", "o", "m">>
HttpsShort == <<"h", "t", "t", "p", "s", ":", "/", "/", "y", "o", "u", "t", "u", ".", "b", "e", "/">>
NoScheme == <<"y", "o", "u", "t", "u", "b", "e", ".", "c", "o", "m">>
WatchPath == <<"/", "w", "a", "t", "c", "h", "?">>
EmbedPath == <<"/", "e", "m", "b", "e", "d", "/">>
ShortsPath == <<"/", "s", "h", "o", "r", "t", "s", "/">>
TimeParam == <<"t", "=", "1", "6", "s">>
ListParam == <<"l", "i", "s", "t", "=", "P", "L", "x", "y", "z">>

\* what may come before and after v=ID in a query, and after a path
ParamsBefore == {<<>>, ListParam \o <<"&">>, TimeParam \o <<"&">>}
ParamsAfter == {<<>>, <<"&">> \o TimeParam, <<"&">> \o TimeParam \o <<"&">> \o ListParam}
QueryAfterPath == {<<>>, <<"?">> \o TimeParam}

\* the URLs of one identifier, each with the shape it has
UrlsOf(id) ==
    {[shape |-> "watch", url |-> HttpsWww \o WatchPath \o b \o <<"v", "=">> \o id \o a] :
         b \in ParamsBefore, a \in ParamsAfter}
    \cup {[shape |-> "watch, no scheme", url |-> NoScheme \o WatchPath \o <<"v", "=">> \o id \o a] :
         a \in ParamsAfter}
    \cup {[shape |-> "short", url |-> HttpsShort \o id \o q] : q \in QueryAfterPath}
    \cup {[shape |-> "embed", url |-> HttpsWww \o EmbedPath \o id \o q] : q \in QueryAfterPath}
    \cup {[shape |-> "shorts", url |-> HttpsWww \o ShortsPath \o id \o q] : q \in QueryAfterPath}
    \cup {[shape |-> "bare", url |-> id], [shape |-> "bare", url |-> <<" ">> \o id \o <<" ">>]}

InitExtract ==
    /\ PostIdle
    /\ TranscriptIdle
    /\ PageIdle
    /\ \E id \in GoodIds \cup BadIds : \E u \in UrlsOf(id) :
           app = Apply("extractVideoId", [youtube_url |-> u.url, shape |-> u.shape, id |-> id])

ExtractVideoId ==
    /\ app.fn = "extractVideoId"
    /\ ~app.returned
    /\ app' = Returned(app, extractVideoId(app.args.youtube_url))
    /\ UNCHANGED <<post, gt, files, page>>

NextExtract == ExtractVideoId

SpecExtract == InitExtract /\ [][NextExtract]_vars

\* extractVideoId has returned or thrown (result NoId)
ExtractReturned == app.fn = "extractVideoId" /\ app.returned

\* C16: what extractVideoId returns has 11 characters, all of [0-9A-Za-z_-];
\* and for a URL that has, where the identifier belongs, a text that is not
\* an identifier (11 characters with one outside the alphabet, or too few), it
\* throws.
C16_ReturnsIdentifierOrThrows ==
    ExtractReturned
        => /\ app.result # NoId
                => /\ Len(app.result) = IdLen
                   /\ \A k \in 1..Len(app.result) : app.result[k] \in IdChars
           /\ app.args.id \in BadIds => app.result = NoId

\* C17: for an identifier, extractVideoId returns that identifier for the
\* watch URL, the youtu.be URL, the embed URL, the shorts URL and the bare
\* identifier, with or without a timestamp or a list parameter before or
\* after it.
C17_SameIdForEveryShape ==
    (ExtractReturned /\ app.args.id \in GoodIds) => app.result = app.args.id

\* the identifier was taken from a watch URL with a list parameter before it
\* and a timestamp after it
C17_Witness ==
    /\ ExtractReturned
    /\ app.args.shape = "watch"
    /\ app.args.youtube_url
           = HttpsWww \o WatchPath \o ListParam \o <<"&", "v", "=">> \o app.args.id
                 \o <<"&">> \o TimeParam
    /\ app.args.id \in GoodIds
    /\ app.result = app.args.id


(***************************************************************************)
(* The requests for a video by URL and for an uploaded file whose id       *)
(* declares a youtubeId that is not an identifier.  upload-srt builds the  *)
(* ids it hands out from a validated youtubeId; the id of a request is     *)
(* whatever text the client puts in the body.                              *)
(***************************************************************************)
SrtBodies ==
    { Body(UrlWatch, <<>>, "video", "deepseek"),
      Body(<<>>, SrtBadId, "video", "deepseek") }

NextSrt ==
    \E r \in Reqs :
        \/ \E d \in SrtBodies : Receive(r, d)
        \/ Step(r)
        \/ Disconnect(r)
        \/ Forget(r)

SpecSrt == Init /\ [][NextSrt]_vars

\* the check of upload-srt: 11 characters of [a-zA-Z0-9_-]
ValidYoutubeId(youtubeId) ==
    /\ Len(youtubeId) = IdLen
    /\ \A k \in 1..Len(youtubeId) : youtubeId[k] \in IdChars

\* the youtubeId an id "srt:fileId:youtubeId:filename" declares, as characters
DeclaredId(srtId) == PartsOfSrtId[srtId][3]

\* the request is for an uploaded file whose id declares a youtubeId that
\* fails the check
DeclaresInvalidId(r) ==
    /\ IsSrtId(data[r].srtId)
    /\ Len(PartsOfSrtId[data[r].srtId]) >= 4
    /\ ~ValidYoutubeId(DeclaredId(data[r].srtId))

\* C18: a request for an uploaded file whose id declares a youtubeId that is
\* not an 11-character identifier never calls findFirst, update or create with
\* that youtubeId, and no row is stored under it.
C18_DeclaredIdRevalidated ==
    \A r \in Reqs :
        DeclaresInvalidId(r)
            => /\ \A j \in CallsOf(r, {"findFirst", "update", "create"}) :
                      log[r][j].videoId # SrtYoutubeId(data[r].srtId)
               /\ \A k \in 1..Len(summaries) :
                      summaries[k].videoId # SrtYoutubeId(data[r].srtId)


(***************************************************************************)
(* AI_MODELS[backend].generateContent(prompt) when the request to the      *)
(* provider fails.  The error of the provider's client has a status (or a  *)
(* response with a status) and a message; 0 and "" stand for a field that  *)
(* is absent.  A message is the sequence of the texts it is concatenated   *)
(* from.                                                                   *)
(***************************************************************************)
ProviderError(status, responseStatus, message) ==
    [status |-> status, responseStatus |-> responseStatus, message |-> message]

\* x || y
OrElse(x, y, absent) == IF x # absent THEN x ELSE y

\* "<name> API key is not configured. ..."
ErrNotConfigured(backend) == <<backend, " API key is not configured">>

\* the cases of the switch on statusCode
DeepSeekStatuses == {400, 401, 402, 422, 429, 500, 503}

\* errorMessage after the switch on statusCode
DeepSeekErrorMessage(statusCode, errorMessage) ==
    CASE statusCode = 400 -> <<"Invalid request format: ", errorMessage>>
      [] statusCode = 401 -> <<"Authentication failed: Please check your DeepSeek API key">>
      [] statusCode = 402 -> <<"Insufficient balance: Your DeepSeek account has run out of credits. Please top up your account.">>
      [] statusCode = 422 -> <<"Invalid parameters in request: ", errorMessage>>
      [] statusCode = 429 -> <<"Rate limit reached: You are sending requests to DeepSeek API too quickly. Please try again later.">>
      [] statusCode = 500 -> <<"DeepSeek server error: Please try again later.">>
      [] statusCode = 503 -> <<"DeepSeek server overloaded: The service is temporarily unavailable due to high traffic. Please try again later.">>
      [] OTHER -> <<errorMessage>>

\* the catch of deepseek's generateContent: the message of the error it throws
DeepSeekCatch(error) ==
    <<"DeepSeek API error: ">>
        \o DeepSeekErrorMessage(OrElse(error.status, error.responseStatus, 0),
                                OrElse(error.message, "Unknown error occurred", ""))

\* the message of the error generateContent throws when the provider's client
\* throws error; without an API key the client is not called
GenerateContentError(backend, configured, error) ==
    IF ~configured THEN ErrNotConfigured(backend)
    ELSE IF backend = "deepseek" THEN DeepSeekCatch(error)
    ELSE <<error.message>>

\* the statuses and messages of the provider's errors
Statuses == DeepSeekStatuses \cup {0, 403}
ResponseStatuses == {0, 401}
ProviderMessages == {"", "provider message 1", "provider message 2"}

InitBackend ==
    /\ PostIdle
    /\ TranscriptIdle
    /\ PageIdle
    /\ \E backend \in AI_MODELS, configured \in BOOLEAN, status \in Statuses,
          responseStatus \in ResponseStatuses, message \in ProviderMessages :
           app = Apply("generateContent",
                       [backend |-> backend, configured |-> configured,
                        error |-> ProviderError(status, responseStatus, message)])

GenerateContentFails ==
    /\ app.fn = "generateContent"
    /\ ~app.returned
    /\ app' = Returned(app, GenerateContentError(app.args.backend, app.args.configured,
                                                 app.args.error))
    /\ UNCHANGED <<post, gt, files, page>>

NextBackend == GenerateContentFails

SpecBackend == InitBackend /\ [][NextBackend]_vars

\* generateContent has thrown on a failure of the provider
ProviderFailed ==
    app.fn = "generateContent" /\ app.returned /\ app.args.configured

\* C19: for each of gemini, groq, gpt4 and deepseek, the message of the error
\* generateContent throws on a failure of the provider is, for a status of the
\* taxonomy (400, 401, 402, 422, 429, 500, 503), a fixed message, the same
\* whatever the provider's message is, and for any other failure the
\* provider's message unchanged.
C19_ErrorsClassified ==
    ProviderFailed
        => LET error == app.args.error
               statusCode == OrElse(error.status, error.responseStatus, 0)
           IN  IF statusCode \in DeepSeekStatuses
               THEN \A m \in ProviderMessages :
                        GenerateContentError(app.args.backend, TRUE,
                                             [error EXCEPT !.message = m]) = app.result
               ELSE error.message # "" => app.result = <<error.message>>


(***************************************************************************)
(* The generation calls of a request (Spec).                               *)
(***************************************************************************)
IsGeneration(call) == call.op = "generateContent"

\* the chunks of the calls of request r to generateContent, in the order the
\* calls were made; 0 is the final prompt
GenerationChunks(r) ==
    LET calls == SelectSeq(log[r], IsGeneration)
    IN  [k \in 1..Len(calls) |-> calls[k].chunk]

\* the handler of r is suspended at a call to generateContent
GenerationPending(r) == pc[r] \in {"chunkGen", "finalGen"}

\* C20: the generation calls of a request are made for chunks 1, 2, ... in
\* order and then for the final prompt; a request that succeeded over N chunks
\* has made exactly the N+1 calls for 1..N and the final prompt; a generation
\* call is made only while no generation call of the request is pending and
\* the request has caught no error, so none follows a failed one.
C20_SequentialSingleAttempts ==
    /\ [](\A r \in Reqs :
            /\ \A k \in 1..Len(GenerationChunks(r)) :
                   \/ GenerationChunks(r)[k] = k
                   \/ GenerationChunks(r)[k] = 0 /\ k = Len(GenerationChunks(r)) /\ k > 1
            /\ SucceededUncached(r)
                 => GenerationChunks(r)
                      = [k \in 1..(ChunkCount(loc[r].isSrtFile) + 1) |->
                             IF k <= ChunkCount(loc[r].isSrtFile) THEN k ELSE 0])
    /\ [][\A r \in Reqs :
            Len(GenerationChunks(r)') > Len(GenerationChunks(r))
                => /\ ~GenerationPending(r)
                   /\ loc[r].error = ""
                   /\ Len(GenerationChunks(r)') = Len(GenerationChunks(r)) + 1]_vars

\* a request by URL over MaxChunks chunks has succeeded after the calls for
\* each chunk and the final prompt
C20_Witness ==
    \E r \in Reqs :
        /\ SucceededUncached(r)
        /\ MaxChunks > 1
        /\ GenerationChunks(r) = [k \in 1..(MaxChunks + 1) |-> IF k <= MaxChunks THEN k ELSE 0]


(***************************************************************************)
(* Requests that fail before or at the end of the generation (Spec).       *)
(***************************************************************************)
\* the request of r names a model that is not a key of AI_MODELS
InvalidModel(r) == pc[r] # "idle" /\ data[r].aiModel \notin AI_MODELS

SavingWrites(r) ==
    {j \in WritesOf(r, "progress") : log[r][j].event.stage = "saving"}

\* C22: the saving event is written only for a summary that is not empty; a
\* request whose final generateContent returned an empty summary writes no
\* saving event and no complete event, calls neither update nor create nor a
\* second findFirst, and the last call it makes is the write of the error
\* event 'No summary content generated'.
C22_EmptyResultIsFatal ==
    \A r \in Reqs :
        /\ SavingWrites(r) # {} => loc[r].summary # ""
        /\ loc[r].error = ErrNoSummary
             => /\ loc[r].summary = ""
                /\ SavingWrites(r) = {}
                /\ WritesOf(r, "complete") = {}
                /\ EventsOf(r, "complete") = {}
                /\ CallsOf(r, {"update", "create"}) = {}
                /\ Cardinality(CallsOf(r, {"findFirst"})) = 1
                /\ log[r][Len(log[r])] = WriteProgress(ErrorEvent(ErrNoSummary))

\* a request has ended after an empty final result, the error event being the
\* last of its stream after the finalizing event
C22_Witness ==
    \E r \in Reqs :
        /\ pc[r] = "done"
        /\ loc[r].error = ErrNoSummary
        /\ Len(stream[r]) > 2
        /\ stream[r][Len(stream[r]) - 1].stage = "finalizing"
        /\ stream[r][Len(stream[r])] = ErrorEvent(ErrNoSummary)


(***************************************************************************)
(* getTranscript without an OpenAI API key (SpecTranscript).               *)
(***************************************************************************)
\* call c of getTranscript runs, or has ended, without an OpenAI client
NoWhisper(c) == gt[c].pc # "idle" /\ ~gt[c].openai

\* C23: a call of getTranscript without an OpenAI API key whose captions
\* failed throws 'Failed to process video: ...' after ytdl.getInfo and nothing
\* else: it never calls downloadAudio or transcribeWithWhisper, it returns only
\* with the captions, no file in /tmp is created by it, and none of its steps
\* changes the files.
C23_NoKeyNoDownload ==
    /\ [](\A c \in Calls :
            NoWhisper(c)
                => /\ gt[c].log \in {<<>>, <<"fetchTranscript">>,
                                     <<"fetchTranscript", "getInfo">>}
                   /\ ~gt[c].opening
                   /\ \A path \in Paths : files[path] # c
                   /\ gt[c].pc = "returned" => gt[c].source = "youtube"
                   /\ gt[c].pc = "thrown"
                        => gt[c].error \in {"Failed to process video: " \o ErrNoWhisper,
                                            "Failed to process video: " \o ErrInfo})
    /\ [][\A c \in Calls :
            (NoWhisper(c) /\ gt'[c] # gt[c] /\ ~gt'[c].openai) => files' = files]_vars

\* a call without an OpenAI API key has thrown after its captions failed and
\* ytdl.getInfo returned
C23_Witness ==
    \E c \in Calls :
        /\ NoWhisper(c)
        /\ gt[c].pc = "thrown"
        /\ gt[c].log = <<"fetchTranscript", "getInfo">>
        /\ gt[c].error = "Failed to process video: " \o ErrNoWhisper


(***************************************************************************)
(* The words carried over between chunks (SpecSplit).                      *)
(***************************************************************************)
\* floor(overlap / 10) words, and all the words of the closed chunk when it
\* has fewer
SeedSize(prevLen, overlap) ==
    IF overlap \div 10 >= prevLen THEN prevLen ELSE overlap \div 10

\* the own words of chunks 1..k when chunk j + 1 is seeded with
\* SeedSize words of chunk j
RECURSIVE RebuiltFromSeeds(_, _, _)
RebuiltFromSeeds(chunks, k, overlap) ==
    IF k = 0 THEN <<>>
    ELSE IF k = 1 THEN Split(chunks[1], " ")
    ELSE RebuiltFromSeeds(chunks, k - 1, overlap)
             \o SubSeq(Split(chunks[k], " "),
                       SeedSize(Len(Split(chunks[k - 1], " ")), overlap) + 1,
                       Len(Split(chunks[k], " ")))

\* C24: every chunk after the first begins with exactly the last
\* floor(overlap / 10) words of the chunk before it (all of its words when it
\* has fewer) and goes on with the next words of the text: none is carried
\* over when overlap < 10, and the chunks without these leading words give the
\* words of the text.
C24_SeedIsOverlapTenth ==
    SplitReturned
        => /\ \A k \in 2..Len(app.result) :
                  BeginsWithCarried(Split(app.result[k - 1], " "), Split(app.result[k], " "),
                                    SeedSize(Len(Split(app.result[k - 1], " ")),
                                             app.args.overlap))
           /\ RebuiltFromSeeds(app.result, Len(app.result), app.args.overlap)
                  = Split(app.args.transcript, " ")


(***************************************************************************)
(* The rows of the table of summaries (Spec).                              *)
(***************************************************************************)
\* the rows for a video in a language
RowsOf(videoId, language) ==
    {k \in 1..Len(summaries) :
        summaries[k].videoId = videoId /\ summaries[k].language = language}

\* C25: at every moment the table has at most one row for a video and a
\* language, and a create returns only while no row for its video and
\* language is there: the request that saves second updates the row of the
\* first.
C25_OneRowPerVideoAndLanguage ==
    /\ [](\A k \in 1..Len(summaries) :
            Cardinality(RowsOf(summaries[k].videoId, summaries[k].language)) = 1)
    /\ [][\A r \in Reqs :
            (pc[r] = "saveCreate" /\ pc'[r] # "saveCreate")
                => RowsOf(loc[r].videoId, data[r].language) = {}]_vars


(***************************************************************************)
(* The request key of two requests.  The handler takes language, mode and  *)
(* aiModel from the body as they are; the key is built before any of them  *)
(* is looked at.                                                           *)
(***************************************************************************)
KeyVideoIds == {"abcDEF12345", "srt:f1:abcDEF12345:a.srt"}
KeyLanguages == {"en", "zh", "zh-CN"}
KeyModes == {"video", "podcast", "CN-video"}
KeyModels == {"deepseek", "gemini"}

\* videoId (the srtId for an upload), language, mode and aiModel of a request
KeyTuple(videoId, language, mode, aiModel) ==
    [videoId |-> videoId, language |-> language, mode |-> mode, aiModel |-> aiModel]

KeyTuples ==
    {KeyTuple(v, l, m, a) : v \in KeyVideoIds, l \in KeyLanguages, m \in KeyModes,
                            a \in KeyModels}

RequestIdOf(t) == RequestId(t.videoId, t.language, t.mode, t.aiModel)

InitKey ==
    /\ PostIdle
    /\ TranscriptIdle
    /\ PageIdle
    /\ \E a \in KeyTuples, b \in KeyTuples :
           app = Apply("requestId", [a |-> a, b |-> b])

RequestIds ==
    /\ app.fn = "requestId"
    /\ ~app.returned
    /\ app' = Returned(app, <<RequestIdOf(app.args.a), RequestIdOf(app.args.b)>>)
    /\ UNCHANGED <<post, gt, files, page>>

NextKey == RequestIds

SpecKey == InitKey /\ [][NextKey]_vars

\* C26: two requests that differ in videoId (or srtId), language, mode or
\* aiModel have different request keys.
C26_KeyIsInjective ==
    (app.fn = "requestId" /\ app.returned /\ app.args.a # app.args.b)
        => app.result[1] # app.result[2]


(***************************************************************************)
(* The files of concurrent calls of getTranscript (SpecTranscript).        *)
(***************************************************************************)
\* call c is running and the file at path is the one it created
OwnsFile(c, path) == files[path] = c /\ ~EndedCall(c) /\ gt[c].pc # "idle"

\* the step is one of call d that goes on after reading the file at path:
\* statSync at 'finish' and ffmpeg's input for the temp file, ffmpeg's check
\* and readFile for the converted file
ReadsFile(d, path) ==
    \/ /\ path = TempPath(gt[d].videoId)
       /\ \/ gt[d].pc = "downloading" /\ gt'[d].pc = "ffmpeg"
          \/ gt[d].pc = "ffmpeg" /\ gt'[d].pc = "readFile"
    \/ /\ path = OutputPath(gt[d].videoId)
       /\ gt[d].pc = "readFile" /\ gt'[d].pc = "whisper"

\* C27: while a call of getTranscript is running, the files it created in
\* /tmp are removed or replaced by its own steps only, and no other call goes
\* on after reading one of them.
C27_TempFilesArePrivate ==
    [][\A c \in Calls : \A path \in Paths :
          OwnsFile(c, path)
              => /\ files'[path] # c => gt'[c] # gt[c]
                 /\ \A d \in Calls \ {c} : ~ReadsFile(d, path)]_vars


(***************************************************************************)
(* The complete events of a request (Spec).                                *)
(***************************************************************************)
\* the complete events on the stream of r that carry the warning
WarnedCompletes(r) ==
    {j \in EventsOf(r, "complete") : stream[r][j].warning = SaveWarning}

EventIds == {"a", "p", "c", "e"}

EventType(x) == IF x = "c" THEN "complete" ELSE IF x = "e" THEN "error" ELSE "progress"

\* data.summary of the complete event and data.error of the error event
SummaryOf(x) == "summary of " \o x
ErrorOf(x) == "error of " \o x

\* the streams of events the handler of POST writes
EventStreams ==
    {<<"c">>, <<"e">>, <<"a", "e">>, <<"a", "p", "c">>, <<"a", "p", "e">>}

\* encoder.encode(JSON.stringify(data) + '\n')
Serialize(x) == <<"{", x, "}", "\n">>

RECURSIVE ResponseBytes(_)
ResponseBytes(events) ==
    IF events = <<>> THEN <<>> ELSE Serialize(Head(events)) \o ResponseBytes(Tail(events))

\* JSON.parse(jsonLine): the event, or a SyntaxError for a text that is not
\* the whole JSON text of an event
JsonParse(jsonLine) ==
    IF /\ Len(jsonLine) = 3
       /\ jsonLine[1] = "{"
       /\ jsonLine[2] \in EventIds
       /\ jsonLine[3] = "}"
    THEN jsonLine[2]
    ELSE "SyntaxError"

NotBlank(line) == Trim(line) # <<>>

\* chunk.split('\n').filter(line => line.trim() !== '')
JsonLines(chunk) == SelectSeq(Split(chunk, "\n"), NotBlank)

\* the for loop over jsonLines: a line that does not parse is logged by the
\* inner catch; a progress event sets the status; a complete event sets the
\* summary and breaks; an error event throws inside the inner try, whose
\* catch logs it like a line that does not parse
RECURSIVE HandleLines(_, _)
HandleLines(pg, jsonLines) ==
    IF jsonLines = <<>> THEN pg
    ELSE IF JsonParse(Head(jsonLines)) = "SyntaxError"
    THEN HandleLines(pg, Tail(jsonLines))
    ELSE IF EventType(JsonParse(Head(jsonLines))) = "progress"
    THEN HandleLines([pg EXCEPT !.status = JsonParse(Head(jsonLines)),
                                !.handled = Append(@, JsonParse(Head(jsonLines)))],
                     Tail(jsonLines))
    ELSE IF EventType(JsonParse(Head(jsonLines))) = "complete"
    THEN [pg EXCEPT !.summary = SummaryOf(JsonParse(Head(jsonLines))),
                    !.handled = Append(@, JsonParse(Head(jsonLines)))]
    ELSE HandleLines([pg EXCEPT !.handled = Append(@, JsonParse(Head(jsonLines)))],
                     Tail(jsonLines))

\* fetchSummary is called; fetch resolves with the response that carries
\* events
FetchSummary(events) ==
    /\ page.pc = "idle"
    /\ page' = PageOf("reading", events, ResponseBytes(events))
    /\ UNCHANGED <<post, gt, files, app>>

\* fetch rejects: the outer catch sets the error, the finally block ends the
\* loading
FetchRejected ==
    /\ page.pc = "idle"
    /\ page' = [page EXCEPT !.pc = "done", !.error = "Failed to fetch", !.loading = FALSE]
    /\ UNCHANGED <<post, gt, files, app>>

\* reader.read() resolves with the next n bytes, which are decoded and handled
\* on their own
Read(n) ==
    /\ page.pc = "reading"
    /\ n \in 1..Len(page.rest)
    /\ page' = [HandleLines(page, JsonLines(SubSeq(page.rest, 1, n)))
                   EXCEPT !.rest = SubSeq(page.rest, n + 1, Len(page.rest))]
    /\ UNCHANGED <<post, gt, files, app>>

\* reader.read() resolves with done: the loop ends and the finally block ends
\* the loading
ReadDone ==
    /\ page.pc = "reading"
    /\ page.rest = <<>>
    /\ page' = [page EXCEPT !.pc = "done", !.loading = FALSE]
    /\ UNCHANGED <<post, gt, files, app>>

MaxRead == 12

InitPage ==
    /\ PostIdle
    /\ OthersIdle

NextPage ==
    \/ \E events \in EventStreams : FetchSummary(events)
    \/ FetchRejected
    \/ \E n \in 1..MaxRead : Read(n)
    \/ ReadDone

SpecPage == InitPage /\ [][NextPage]_vars

\* the page has read its response to the end
PageDone == page.pc = "done" /\ page.events # <<>>

\* C29: when the response had an error event, the page ends with the message
\* of that event as its error, and not with loading over, no summary and no
\* error.
C29_ErrorEventShown ==
    (PageDone /\ \E k \in 1..Len(page.events) : page.events[k] = "e")
        => /\ page.error = ErrorOf("e")
           /\ ~(~page.loading /\ page.summary = "" /\ page.error = "")

\* C30: when the page has read its response to the end, the events it
\* dispatched are the events of the response, each once and in order, however
\* the bytes were cut into reads.
C30_EveryEventHandledOnce ==
    PageDone => page.handled = page.events

====
